---- MODULE Spec2Model ----
(***************************************************************************)
(* Model of solveHeist (src/unnamed/part_000, the exported multi-root       *)
(* variant; src/Algorithm.ts holds two earlier variants of the same file).  *)
(*                                                                          *)
(* Spec      : one whole run of solveHeist of src/unnamed/part_000, the     *)
(*             inner search unfolded one dequeue at a time.                 *)
(* SpecFair  : Spec with weak fairness of the run's steps (the program is   *)
(*             single-threaded and runs to completion).                     *)
(* SpecRisk  : the Risk Store alone (keyed map and linear-scan map), driven *)
(*             by arbitrary setRisk calls.                                  *)
(* SpecBuild : the graph construction alone, in its two forms               *)
(*             (graph.get(dep).push and graph.get(dep)?.push).              *)
(***************************************************************************)
EXTENDS Integers, Sequences, FiniteSets, TLC

VARIABLES
    sensors,            \* input: sequence of [id, dependencies]
    risks,              \* input: sequence of [fromSensor, toSensor, risk]
    targetSensors,      \* input: sequence of node ids
    pc,                 \* position in solveHeist
    graph,              \* Map<number, number[]>: node -> neighbors
    riskMap,            \* Map<string, number>: "from,to" -> risk
    roots,              \* sorted ids of the sensors with no dependencies
    paths,              \* number[][]: the output
    remainingTargets,   \* Set<number>, in insertion order
    forRest,            \* the targets the for-of loop has still to visit
    target,             \* the target of the running search
    search,             \* locals of multiRootDijkstra: risks, visited, pq
    pathInfo,           \* result of the last multiRootDijkstra call
    minPath,            \* best TargetPathInfo of this iteration
    minRisk,            \* its risk
    bestTarget,         \* its target
    resolved,           \* history: per recorded path, the iteration's minPath and search results
    found,              \* results of this iteration's searches, in order
    riskList,           \* Map<Edge, number> of the linear-scan variant, in insertion order
    lastCall,           \* SpecRisk: the last Risk Store call and what it observed
    returned            \* SpecEquiv: what each per-root solveHeist returned, once called

vars == <<sensors, risks, targetSensors, pc, graph, riskMap, roots, paths,
          remainingTargets, forRest, target, search, pathInfo, minPath, minRisk,
          bestTarget, resolved, found, riskList, lastCall, returned>>

----------------------------------------------------------------------------
(* Bounds of the model. *)

\* edge risks of the inputs range over 0..MaxRisk
MaxRisk == 1
\* the target list has at most MaxTargets entries
MaxTargets == 2

\* The node ids of the inputs, in the order the sensor list gives them. A sensor
\* may depend on the sensors before it in this order, so every input is acyclic.
\* 2 and 10 differ in their number of digits.
NodeOrder == <<2, 10, 1, 3>>

\* an id that no sensor has
UnknownIds == {7}

NodeIds == {NodeOrder[i] : i \in 1..Len(NodeOrder)}

----------------------------------------------------------------------------
(* JavaScript values. *)

\* Infinity, as stored in the search's risks map and in minRisk
Infinity == -1

\* null, for a TargetPathInfo | null
null == [target |-> -1, path |-> <<>>, risk |-> -1]

\* null, for bestTarget: number | null
nullTarget == -1

\* F(x), with x evaluated once: x is bound as the element of a one-element set
Once(x, F(_)) == CHOOSE r \in {F(v) : v \in {x}} : TRUE

\* a < b on numbers where b may be Infinity (a is always finite here)
LessThan(a, b) == b = Infinity \/ (a # Infinity /\ a < b)

\* code units of ',' and '0'
Comma == 44
Zero == 48

\* String(n) of a non-negative integer, as a sequence of code units
RECURSIVE DecimalString(_)
DecimalString(n) == IF n < 10 THEN <<Zero + n>>
               ELSE DecimalString(n \div 10) \o <<Zero + (n % 10)>>

\* path.join(',')
RECURSIVE Join(_)
Join(path) == IF path = <<>> THEN <<>>
              ELSE IF Len(path) = 1 THEN DecimalString(path[1])
              ELSE DecimalString(path[1]) \o <<Comma>> \o Join(Tail(path))

\* a.localeCompare(b) on strings of digits and commas: -1, 0 or 1. In the
\* collation order ',' sorts before every digit and the digits in their order,
\* as their code units do; a proper prefix sorts first.
RECURSIVE LocaleCompare(_, _)
LocaleCompare(a, b) ==
    IF a = <<>> THEN (IF b = <<>> THEN 0 ELSE -1)
    ELSE IF b = <<>> THEN 1
    ELSE IF a[1] < b[1] THEN -1
    ELSE IF a[1] > b[1] THEN 1
    ELSE LocaleCompare(Tail(a), Tail(b))

----------------------------------------------------------------------------
(* Risk Store, keyed variant: src/unnamed/part_000:64-90. *)

\* mutant: the key has no separator
KeyNoSeparator(from, to) == DecimalString(from) \o DecimalString(to)

\* `${from},${to}`
Key(from, to) == DecimalString(from) \o <<Comma>> \o DecimalString(to)

\* Map.prototype.set
MapSet(m, k, v) == [x \in DOMAIN m \cup {k} |-> IF x = k THEN v ELSE m[x]]

\* riskMap after risks.forEach(risk => riskMap.set(key, risk.risk))
RECURSIVE BuildRiskMap(_, _)
BuildRiskMap(m, rs) ==
    IF rs = <<>> THEN m
    ELSE Once(MapSet(m, Key(Head(rs).fromSensor, Head(rs).toSensor), Head(rs).risk),
              LAMBDA n : BuildRiskMap(n, Tail(rs)))

EmptyMap == [x \in {} |-> 0]

getRisk(m, from, to) == IF Key(from, to) \in DOMAIN m THEN m[Key(from, to)] ELSE 0

setRisk(m, from, to, value) == MapSet(m, Key(from, to), value)

----------------------------------------------------------------------------
(* Risk Store, linear-scan variant: src/Algorithm.ts:224-250. The map is    *)
(* keyed by Edge objects, each a key of its own: a sequence of entries in   *)
(* insertion order.                                                         *)

\* risks.forEach(risk => riskMap.set({from, to}, risk.risk)): one entry per risk
RECURSIVE BuildRiskList(_)
BuildRiskList(rs) ==
    IF rs = <<>> THEN <<>>
    ELSE <<[from |-> Head(rs).fromSensor, to |-> Head(rs).toSensor, risk |-> Head(rs).risk]>>
         \o BuildRiskList(Tail(rs))

\* the first entry whose edge has this from and to, or 0
RECURSIVE getRiskLinear(_, _, _)
getRiskLinear(l, from, to) ==
    IF l = <<>> THEN 0
    ELSE IF Head(l).from = from /\ Head(l).to = to THEN Head(l).risk
    ELSE getRiskLinear(Tail(l), from, to)

\* the first such entry is updated; without one, an entry is added
RECURSIVE setRiskLinear(_, _, _, _)
setRiskLinear(l, from, to, value) ==
    IF l = <<>> THEN <<[from |-> from, to |-> to, risk |-> value]>>
    ELSE IF Head(l).from = from /\ Head(l).to = to
         THEN <<[Head(l) EXCEPT !.risk = value]>> \o Tail(l)
    ELSE <<Head(l)>> \o setRiskLinear(Tail(l), from, to, value)

----------------------------------------------------------------------------
(* Graph construction: src/unnamed/part_000:45-57 and 95-98. *)

SensorIds(ss) == {ss[i].id : i \in 1..Len(ss)}

\* sensors.forEach(sensor => graph.set(sensor.id, []))
EmptyGraph(ss) == [id \in SensorIds(ss) |-> <<>>]

\* sensor.dependencies.forEach(dep => graph.get(dep).push(sensor.id)):
\* graph.get(dep) is undefined for an id that is no sensor's, and .push on it
\* throws a TypeError.
RECURSIVE AddDependencies(_, _, _)
AddDependencies(g, id, deps) ==
    IF ~g.ok \/ deps = <<>> THEN g
    ELSE IF Head(deps) \notin DOMAIN g.graph
         THEN [ok |-> FALSE, graph |-> g.graph]
         ELSE Once([ok |-> TRUE,
                    graph |-> [g.graph EXCEPT ![Head(deps)] = Append(@, id)]],
                   LAMBDA h : AddDependencies(h, id, Tail(deps)))

RECURSIVE AddSensors(_, _)
AddSensors(g, ss) ==
    IF ~g.ok \/ ss = <<>> THEN g
    ELSE Once(AddDependencies(g, Head(ss).id, Head(ss).dependencies),
              LAMBDA h : AddSensors(h, Tail(ss)))

\* the adjacency structure, or ok = FALSE when the construction throws
BuildGraph(ss) == AddSensors([ok |-> TRUE, graph |-> EmptyGraph(ss)], ss)

\* src/Algorithm.ts:217-221: graph.get(dep)?.push(sensor.id) skips a dependency
\* on an id that is no sensor's
RECURSIVE AddDependenciesLinearScan(_, _, _)
AddDependenciesLinearScan(g, id, deps) ==
    IF deps = <<>> THEN g
    ELSE AddDependenciesLinearScan(
             IF Head(deps) \in DOMAIN g THEN [g EXCEPT ![Head(deps)] = Append(@, id)] ELSE g,
             id, Tail(deps))

RECURSIVE AddSensorsLinearScan(_, _)
AddSensorsLinearScan(g, ss) ==
    IF ss = <<>> THEN g
    ELSE AddSensorsLinearScan(
             AddDependenciesLinearScan(g, Head(ss).id, Head(ss).dependencies), Tail(ss))

\* src/Algorithm.ts:214-221
BuildGraphLinearScan(ss) == AddSensorsLinearScan(EmptyGraph(ss), ss)

\* Array.prototype.sort((a, b) => a - b)
RECURSIVE Insert(_, _)
Insert(x, sorted) ==
    IF sorted = <<>> THEN <<x>>
    ELSE IF x < Head(sorted) THEN <<x>> \o sorted
    ELSE <<Head(sorted)>> \o Insert(x, Tail(sorted))

RECURSIVE SortAscending(_)
SortAscending(xs) == IF xs = <<>> THEN <<>>
                     ELSE Insert(Head(xs), SortAscending(Tail(xs)))

RECURSIVE MapId(_)
MapId(ss) == IF ss = <<>> THEN <<>> ELSE <<Head(ss).id>> \o MapId(Tail(ss))

\* mutant: the filter is dropped
RootsUnfiltered(ss) == SortAscending(MapId(ss))

\* sensors.filter(s => s.dependencies.length === 0).map(s => s.id).sort(...)
Roots(ss) ==
    SortAscending(MapId(SelectSeq(ss, LAMBDA s : Len(s.dependencies) = 0)))

----------------------------------------------------------------------------
(* multiRootDijkstra: src/unnamed/part_000:113-169. *)

\* mutant: the risk is not compared
compareByPathOnly(a, b) == LocaleCompare(Join(a.path), Join(b.path))

\* the queue's compare callback
compare(a, b) ==
    IF a.risk # b.risk THEN a.risk - b.risk
    ELSE LocaleCompare(Join(a.path), Join(b.path))

\* index of the element pq.dequeue() removes: a least one under compare
\* (two entries that compare equal have the same risk, path and node)
FrontIndex(pq) ==
    CHOOSE i \in 1..Len(pq) :
        /\ \A j \in 1..Len(pq) : compare(pq[i], pq[j]) <= 0
        /\ \A j \in 1..(i - 1) : compare(pq[j], pq[i]) # 0

RemoveAt(seq, i) == SubSeq(seq, 1, i - 1) \o SubSeq(seq, i + 1, Len(seq))

\* lines 126-131: every node at Infinity, then every root enqueued at 0
RECURSIVE SeedRoots(_, _)
SeedRoots(s, rs) ==
    IF rs = <<>> THEN s
    ELSE Once([s EXCEPT !.pq = Append(@, [risk |-> 0, node |-> Head(rs), path |-> <<Head(rs)>>]),
                        !.risks = MapSet(@, Head(rs), 0)],
              LAMBDA n : SeedRoots(n, Tail(rs)))

DijkstraInit(ss, rs) ==
    SeedRoots([risks |-> [id \in SensorIds(ss) |-> Infinity],
               visited |-> {},
               pq |-> <<>>], rs)

\* lines 153-165: the body of the loop over the neighbors, for the neighbor n
RelaxNeighbor(s, m, node, risk, path, n) ==
    LET newRisk == getRisk(m, node, n) + risk
        pushed == [s EXCEPT !.pq = Append(@, [risk |-> newRisk, node |-> n,
                                              path |-> Append(path, n)])]
    IN  IF n \in s.visited THEN s
        ELSE IF LessThan(newRisk, s.risks[n]) THEN [pushed EXCEPT !.risks[n] = newRisk]
        ELSE IF newRisk = s.risks[n] THEN pushed
        ELSE s

\* lines 152-166: the loop over the neighbors ns of the node just finalized
RECURSIVE Relax(_, _, _, _, _, _)
Relax(s, m, node, risk, path, ns) ==
    IF ns = <<>> THEN s
    ELSE Once(RelaxNeighbor(s, m, node, risk, path, Head(ns)),
              LAMBDA next : Relax(next, m, node, risk, path, Tail(ns)))

\* graph.get(node) || []
Neighbors(g, node) == IF node \in DOMAIN g THEN g[node] ELSE <<>>

\* mutant: a node is never marked as visited
PassOnNoVisited(rest, e, g, m, t) ==
    IF e.node = t
    THEN [state |-> rest, returned |-> TRUE,
          value |-> [target |-> t, path |-> e.path, risk |-> e.risk]]
    ELSE [state |-> Relax(rest, m, e.node, e.risk, e.path, Neighbors(g, e.node)),
          returned |-> FALSE, value |-> null]

\* lines 136-166: the pass that dequeued the entry e, on the state left by the dequeue
PassOn(rest, e, g, m, t) ==
    IF e.node \in rest.visited
    THEN [state |-> rest, returned |-> FALSE, value |-> null]
    ELSE IF e.node = t
    THEN [state |-> [rest EXCEPT !.visited = @ \cup {e.node}], returned |-> TRUE,
          value |-> [target |-> t, path |-> e.path, risk |-> e.risk]]
    ELSE [state |-> Relax([rest EXCEPT !.visited = @ \cup {e.node}],
                          m, e.node, e.risk, e.path, Neighbors(g, e.node)),
          returned |-> FALSE, value |-> null]

\* One pass of the while loop (lines 133-167) on the search state s: the state
\* after it and, when the pass returns, the TargetPathInfo.
DijkstraPass(s, g, m, t) ==
    Once(FrontIndex(s.pq),
         LAMBDA i : Once(s.pq[i],
                         LAMBDA e : PassOn([s EXCEPT !.pq = RemoveAt(@, i)], e, g, m, t)))

----------------------------------------------------------------------------
(* The inputs of a run. *)

\* the pairs (dependency, dependent) an input may declare: each runs forward
\* in NodeOrder
PotentialEdges == {<<2, 10>>, <<2, 1>>, <<10, 1>>, <<10, 3>>, <<1, 3>>}

EdgeOrder ==
    LET n == Len(NodeOrder)
    IN  [k \in 1..(n * n) |-> <<NodeOrder[((k - 1) \div n) + 1], NodeOrder[((k - 1) % n) + 1]>>]

\* w[e] = -1: e is not declared; otherwise e is declared and has risk w[e].
\* extra: a dependency of the last sensor on an id that is no sensor's.
SensorsOf(w, extra) ==
    [i \in 1..Len(NodeOrder) |->
        [id |-> NodeOrder[i],
         dependencies |->
            SelectSeq(SubSeq(NodeOrder, 1, i - 1),
                      LAMBDA d : <<d, NodeOrder[i]>> \in PotentialEdges
                                 /\ w[<<d, NodeOrder[i]>>] >= 0)
            \o (IF i = Len(NodeOrder) THEN extra ELSE <<>>)]]

RECURSIVE RiskEntries(_, _)
RiskEntries(w, es) ==
    IF es = <<>> THEN <<>>
    ELSE (IF Head(es) \in PotentialEdges /\ w[Head(es)] >= 1
          THEN <<[fromSensor |-> Head(es)[1], toSensor |-> Head(es)[2], risk |-> w[Head(es)]]>>
          ELSE <<>>) \o RiskEntries(w, Tail(es))

\* the risk list names the edges of risk >= 1; an edge of risk 0 is unlisted
RisksOf(w) == RiskEntries(w, EdgeOrder)

RECURSIVE SeqsUpTo(_, _)
SeqsUpTo(S, n) ==
    IF n = 0 THEN {<<>>}
    ELSE LET shorter == SeqsUpTo(S, n - 1)
         IN  shorter \cup {Append(q, x) : q \in shorter, x \in S}

\* the ids a target list may name: sensors, roots or not, and an id that is no sensor's
TargetIds == {1, 3} \cup UnknownIds

TargetLists == SeqsUpTo(TargetIds, MaxTargets)

----------------------------------------------------------------------------
(* solveHeist: src/unnamed/part_000:40-205. *)

NoSearch == [risks |-> EmptyMap, visited |-> {}, pq |-> <<>>]
\* no per-root solveHeist has been called
NotCalled == [state |-> "pending", paths |-> <<>>]
NotReturned == [keyed |-> NotCalled, linear |-> NotCalled]
NoCall == [op |-> "none", from |-> 0, to |-> 0, value |-> 0, calls |-> 0, written |-> {}]

Init ==
    /\ \E w \in [PotentialEdges -> -1..MaxRisk] :
       \E extra \in {<<>>} \cup {<<u>> : u \in UnknownIds} :
          /\ sensors = SensorsOf(w, extra)
          /\ risks = RisksOf(w)
    /\ targetSensors \in TargetLists
    /\ pc = "build"
    /\ graph = EmptyMap
    /\ riskMap = EmptyMap
    /\ roots = <<>>
    /\ paths = <<>>
    /\ remainingTargets = <<>>
    /\ forRest = <<>>
    /\ target = nullTarget
    /\ search = NoSearch
    /\ pathInfo = null
    /\ minPath = null
    /\ minRisk = Infinity
    /\ bestTarget = nullTarget
    /\ resolved = <<>>
    /\ found = <<>>
    /\ riskList = <<>>
    /\ lastCall = NoCall
    /\ returned = NotReturned

\* new Set(targetSensors): the distinct targets in order of first occurrence
RECURSIVE NewSet(_, _)
NewSet(acc, xs) ==
    IF xs = <<>> THEN acc
    ELSE NewSet(IF \E i \in 1..Len(acc) : acc[i] = Head(xs) THEN acc ELSE Append(acc, Head(xs)),
                Tail(xs))

\* mutant: the first pending target is deleted, not the resolved one
SetDeleteFirst(set, x) == Tail(set)

\* Set.prototype.delete
SetDelete(set, x) == SelectSeq(set, LAMBDA y : y # x)

\* mutant: the loop stops one edge early
RECURSIVE ZeroPathButLast(_, _)
ZeroPathButLast(m, path) ==
    IF Len(path) < 3 THEN m
    ELSE ZeroPathButLast(setRisk(m, path[1], path[2], 0), Tail(path))

\* lines 196-198: setRisk(path[i], path[i + 1], 0) along the path
RECURSIVE ZeroPath(_, _)
ZeroPath(m, path) ==
    IF Len(path) < 2 THEN m
    ELSE Once(setRisk(m, path[1], path[2], 0), LAMBDA n : ZeroPath(n, Tail(path)))

\* lines 45-98 and 171-172: everything before the while loop
Construct ==
    /\ pc = "build"
    /\ \E g \in {BuildGraph(sensors)} :
           IF g.ok
           THEN /\ graph' = g.graph
                /\ riskMap' = BuildRiskMap(EmptyMap, risks)
                /\ roots' = Roots(sensors)
                /\ remainingTargets' = NewSet(<<>>, targetSensors)
                /\ pc' = "loop"
           ELSE /\ pc' = "error"
                /\ UNCHANGED <<graph, riskMap, roots, remainingTargets>>
    /\ UNCHANGED <<sensors, risks, targetSensors, paths, forRest, target, search,
                   pathInfo, minPath, minRisk, bestTarget, resolved, found,
                   riskList, lastCall,
                   returned>>

\* lines 174-177: the while condition and the iteration's locals
LoopHead ==
    /\ pc = "loop"
    /\ remainingTargets # <<>>
    /\ minPath' = null
    /\ minRisk' = Infinity
    /\ bestTarget' = nullTarget
    /\ forRest' = remainingTargets
    /\ found' = <<>>
    /\ pc' = "for"
    /\ UNCHANGED <<sensors, risks, targetSensors, graph, riskMap, roots, paths,
                   remainingTargets, target, search, pathInfo, resolved,
                   riskList, lastCall,
                   returned>>

\* line 174 false, then line 204: return paths
LoopExit ==
    /\ pc = "loop"
    /\ remainingTargets = <<>>
    /\ pc' = "done"
    /\ UNCHANGED <<sensors, risks, targetSensors, graph, riskMap, roots, paths,
                   remainingTargets, forRest, target, search, pathInfo, minPath,
                   minRisk, bestTarget, resolved, found, riskList, lastCall,
                   returned>>

\* lines 179-180: the next target of the for-of loop; the search is set up
ForNext ==
    /\ pc = "for"
    /\ forRest # <<>>
    /\ target' = Head(forRest)
    /\ forRest' = Tail(forRest)
    /\ search' = DijkstraInit(sensors, roots)
    /\ pc' = "dijkstra"
    /\ UNCHANGED <<sensors, risks, targetSensors, graph, riskMap, roots, paths,
                   remainingTargets, pathInfo, minPath, minRisk, bestTarget,
                   resolved, found, riskList, lastCall,
                   returned>>

\* lines 133-167: one pass of the search's while loop
DijkstraStep ==
    /\ pc = "dijkstra"
    /\ search.pq # <<>>
    /\ \E r \in {DijkstraPass(search, graph, riskMap, target)} :
          /\ search' = r.state
          /\ IF r.returned
             THEN pathInfo' = r.value /\ pc' = "compare"
             ELSE UNCHANGED <<pathInfo, pc>>
    /\ UNCHANGED <<sensors, risks, targetSensors, graph, riskMap, roots, paths,
                   remainingTargets, forRest, target, minPath, minRisk, bestTarget,
                   resolved, found, riskList, lastCall,
                   returned>>

\* line 133 false, then line 168: return null
DijkstraNotFound ==
    /\ pc = "dijkstra"
    /\ search.pq = <<>>
    /\ pathInfo' = null
    /\ pc' = "compare"
    /\ UNCHANGED <<sensors, risks, targetSensors, graph, riskMap, roots, paths,
                   remainingTargets, forRest, target, search, minPath, minRisk,
                   bestTarget, resolved, found, riskList, lastCall,
                   returned>>

\* mutant: a tie on the risk goes to the larger target id
BetterLargerId(info, t, mr, bt) ==
    LessThan(info.risk, mr) \/ (info.risk = mr /\ t > bt)

\* mutant: a tie on the risk keeps the target found first
BetterNoTieBreak(info, t, mr, bt) == LessThan(info.risk, mr)

\* lines 183-184: the condition under which a search result replaces minPath
Better(info, t, mr, bt) ==
    LessThan(info.risk, mr) \/ (info.risk = mr /\ t < bt)

\* lines 182-189
Compare ==
    /\ pc = "compare"
    /\ IF pathInfo # null /\ Better(pathInfo, target, minRisk, bestTarget)
       THEN /\ minPath' = pathInfo
            /\ minRisk' = pathInfo.risk
            /\ bestTarget' = target
       ELSE UNCHANGED <<minPath, minRisk, bestTarget>>
    /\ found' = Append(found, [target |-> target, info |-> pathInfo])
    /\ pc' = "for"
    /\ UNCHANGED <<sensors, risks, targetSensors, graph, riskMap, roots, paths,
                   remainingTargets, forRest, target, search, pathInfo, resolved,
                   riskList, lastCall,
                   returned>>

\* lines 192-198: the path is recorded, its target removed, its edges zeroed
Record ==
    /\ pc = "for"
    /\ forRest = <<>>
    /\ minPath # null
    /\ paths' = Append(paths, minPath.path)
    /\ remainingTargets' = SetDelete(remainingTargets, minPath.target)
    /\ riskMap' = ZeroPath(riskMap, minPath.path)
    /\ resolved' = Append(resolved, [info |-> minPath, found |-> found])
    /\ pc' = "loop"
    /\ UNCHANGED <<sensors, risks, targetSensors, graph, roots, forRest, target,
                   search, pathInfo, minPath, minRisk, bestTarget, found,
                   riskList, lastCall,
                   returned>>

\* lines 199-201 and 204: break, return paths
Break ==
    /\ pc = "for"
    /\ forRest = <<>>
    /\ minPath = null
    /\ pc' = "done"
    /\ UNCHANGED <<sensors, risks, targetSensors, graph, riskMap, roots, paths,
                   remainingTargets, forRest, target, search, pathInfo, minPath,
                   minRisk, bestTarget, resolved, found, riskList, lastCall,
                   returned>>

Next ==
    \/ Construct
    \/ LoopHead
    \/ LoopExit
    \/ ForNext
    \/ DijkstraStep
    \/ DijkstraNotFound
    \/ Compare
    \/ Record
    \/ Break

Spec == Init /\ [][Next]_vars

----------------------------------------------------------------------------
(* What the claims speak of, stated from the inputs alone. *)

Range(seq) == {seq[i] : i \in 1..Len(seq)}

Last(seq) == seq[Len(seq)]

AllIds == NodeIds \cup UnknownIds

\* the dependencies sensor id declares; none for an id that is no sensor's
DependenciesOf(id) ==
    UNION {Range(sensors[i].dependencies) : i \in {j \in 1..Len(sensors) : sensors[j].id = id}}

\* a root: a sensor with an empty dependency list
IsRoot(id) == \E i \in 1..Len(sensors) : sensors[i].id = id /\ sensors[i].dependencies = <<>>

\* (a, b) is an edge: b is a sensor that declares the sensor a as a dependency
IsEdge(a, b) == a \in SensorIds(sensors) /\ b \in SensorIds(sensors) /\ a \in DependenciesOf(b)

\* every path from a root to t along edges (the inputs are acyclic)
RECURSIVE PathsTo(_)
PathsTo(t) ==
    (IF IsRoot(t) THEN {<<t>>} ELSE {})
    \cup UNION {{Append(p, t) : p \in PathsTo(a)} : a \in {x \in SensorIds(sensors) : IsEdge(x, t)}}

\* the sum of the Risk Store's values along a path
RECURSIVE PathRisk(_, _)
PathRisk(m, path) ==
    IF Len(path) < 2 THEN 0
    ELSE getRisk(m, path[1], path[2]) + PathRisk(m, Tail(path))

\* the least total risk of a path to t (t has one)
MinPathRisk(m, t) ==
    CHOOSE r \in {PathRisk(m, p) : p \in PathsTo(t)} :
        \A p \in PathsTo(t) : r <= PathRisk(m, p)

\* p comes before q, comparing ids as integers position by position
RECURSIVE IntLexLess(_, _)
IntLexLess(p, q) ==
    IF q = <<>> THEN FALSE
    ELSE IF p = <<>> THEN TRUE
    ELSE IF p[1] # q[1] THEN p[1] < q[1]
    ELSE IntLexLess(Tail(p), Tail(q))

\* the risk the risk list gives an edge (its last entry for it), 0 if unlisted
InitialRisk(a, b) ==
    LET listed == {i \in 1..Len(risks) : risks[i].fromSensor = a /\ risks[i].toSensor = b}
    IN  IF listed = {} THEN 0
        ELSE risks[CHOOSE i \in listed : \A j \in listed : j <= i].risk

\* (a, b) is a consecutive pair of a recorded path
OnRecordedPath(a, b) ==
    \E k \in 1..Len(paths) : \E i \in 1..(Len(paths[k]) - 1) :
        paths[k][i] = a /\ paths[k][i + 1] = b

TypeOK == pc \in {"build", "error", "loop", "for", "dijkstra", "compare", "done",
                 "built", "riskinit", "store"}

\* the run is single-threaded and runs to completion: a step that can be taken is taken
SpecFair == Spec /\ WF_vars(Next)

----------------------------------------------------------------------------
(* SpecBuild: the graph construction of the variants, on the same sensor    *)
(* lists.                                                                   *)

InitBuild ==
    /\ \E w \in [PotentialEdges -> -1..MaxRisk] :
       \E extra \in {<<>>} \cup {<<u>> : u \in UnknownIds} :
          /\ sensors = SensorsOf(w, extra)
          /\ risks = RisksOf(w)
    /\ targetSensors = <<>>
    /\ pc = "build"
    /\ graph = EmptyMap
    /\ riskMap = EmptyMap
    /\ roots = <<>>
    /\ paths = <<>>
    /\ remainingTargets = <<>>
    /\ forRest = <<>>
    /\ target = nullTarget
    /\ search = NoSearch
    /\ pathInfo = null
    /\ minPath = null
    /\ minRisk = Infinity
    /\ bestTarget = nullTarget
    /\ resolved = <<>>
    /\ found = <<>>
    /\ riskList = <<>>
    /\ lastCall = NoCall
    /\ returned = NotReturned

\* src/unnamed/part_000:45-57 (and src/Algorithm.ts:34-41, the same code)
ConstructGraph ==
    /\ pc = "build"
    /\ \E g \in {BuildGraph(sensors)} :
           IF g.ok
           THEN graph' = g.graph /\ pc' = "built"
           ELSE graph' = graph /\ pc' = "error"
    /\ UNCHANGED <<sensors, risks, targetSensors, riskMap, roots, paths,
                   remainingTargets, forRest, target, search, pathInfo, minPath,
                   minRisk, bestTarget, resolved, found, riskList, lastCall,
                   returned>>

\* src/Algorithm.ts:214-221
ConstructGraphLinearScan ==
    /\ pc = "build"
    /\ graph' = BuildGraphLinearScan(sensors)
    /\ pc' = "built"
    /\ UNCHANGED <<sensors, risks, targetSensors, riskMap, roots, paths,
                   remainingTargets, forRest, target, search, pathInfo, minPath,
                   minRisk, bestTarget, resolved, found, riskList, lastCall,
                   returned>>

NextBuild == ConstructGraph \/ ConstructGraphLinearScan

SpecBuild == InitBuild /\ [][NextBuild]_vars

----------------------------------------------------------------------------
(* SpecRisk: the Risk Store of src/unnamed/part_000:64-90 and the one of    *)
(* src/Algorithm.ts:224-250, built from the same risk list and given the    *)
(* same setRisk calls.                                                      *)

\* the risk list has at most MaxRiskEntries entries
MaxRiskEntries == 2
\* at most MaxCalls calls of setRisk are made
MaxCalls == 2

\* the ids the Risk Store is asked about: "1" + "11" and "11" + "1" are the same digits
StoreIds == {1, 11}

RiskEntrySet == [fromSensor : StoreIds, toSensor : StoreIds, risk : 0..MaxRisk]

InitRisk ==
    /\ risks \in SeqsUpTo(RiskEntrySet, MaxRiskEntries)
    /\ sensors = <<>>
    /\ targetSensors = <<>>
    /\ pc = "riskinit"
    /\ graph = EmptyMap
    /\ riskMap = EmptyMap
    /\ roots = <<>>
    /\ paths = <<>>
    /\ remainingTargets = <<>>
    /\ forRest = <<>>
    /\ target = nullTarget
    /\ search = NoSearch
    /\ pathInfo = null
    /\ minPath = null
    /\ minRisk = Infinity
    /\ bestTarget = nullTarget
    /\ resolved = <<>>
    /\ found = <<>>
    /\ riskList = <<>>
    /\ lastCall = NoCall
    /\ returned = NotReturned

\* src/unnamed/part_000:64-68 and src/Algorithm.ts:224-228
BuildStores ==
    /\ pc = "riskinit"
    /\ riskMap' = BuildRiskMap(EmptyMap, risks)
    /\ riskList' = BuildRiskList(risks)
    /\ pc' = "store"
    /\ UNCHANGED <<sensors, risks, targetSensors, graph, roots, paths,
                   remainingTargets, forRest, target, search, pathInfo, minPath,
                   minRisk, bestTarget, resolved, found, lastCall, returned>>

\* a call setRisk(from, to, value), made on both stores
SetRiskCall ==
    /\ pc = "store"
    /\ lastCall.calls < MaxCalls
    /\ \E from \in StoreIds, to \in StoreIds, value \in 0..MaxRisk :
          /\ riskMap' = setRisk(riskMap, from, to, value)
          /\ riskList' = setRiskLinear(riskList, from, to, value)
          /\ lastCall' = [op |-> "setRisk", from |-> from, to |-> to, value |-> value,
                          calls |-> lastCall.calls + 1,
                          written |-> lastCall.written \cup {<<from, to>>}]
    /\ UNCHANGED <<sensors, risks, targetSensors, pc, graph, roots, paths,
                   remainingTargets, forRest, target, search, pathInfo, minPath,
                   minRisk, bestTarget, resolved, found, returned>>

NextRisk == BuildStores \/ SetRiskCall

SpecRisk == InitRisk /\ [][NextRisk]_vars

----------------------------------------------------------------------------
(* solveHeist, per-root variant with the keyed risk map:                    *)
(* src/Algorithm.ts:32-175. Its graph, riskMap, getRisk, setRisk and roots  *)
(* are the code of src/unnamed/part_000 (BuildGraph, BuildRiskMap, getRisk, *)
(* setRisk, Roots).                                                         *)

\* dijkstra's return null
nullResult == [dist |-> -1, path |-> <<>>]
\* findBestPathToTarget's return null, and bestOption = null
nullOption == [target |-> -1, path |-> <<>>, risk |-> -1, root |-> -1]
\* bestRoot = null: root < null is false for every id
nullRoot == -1
\* what a solveHeist that threw leaves its caller with
Thrown == [state |-> "thrown", paths |-> <<>>]

\* lines 68-74: the queue's compare callback
comparePerRoot(a, b) ==
    IF a.dist # b.dist THEN a.dist - b.dist
    ELSE LocaleCompare(Join(a.path), Join(b.path))

\* line 82: index of the element pq.dequeue() removes
FrontIndexPerRoot(pq) ==
    CHOOSE i \in 1..Len(pq) :
        /\ \A j \in 1..Len(pq) : comparePerRoot(pq[i], pq[j]) <= 0
        /\ \A j \in 1..(i - 1) : comparePerRoot(pq[j], pq[i]) # 0

\* lines 99-111: the body of the loop over the neighbors, for the neighbor n
RelaxNeighborKeyed(s, m, node, dist, path, n) ==
    LET newDist == getRisk(m, node, n) + dist
        pushed == [s EXCEPT !.pq = Append(@, [dist |-> newDist, node |-> n,
                                              path |-> Append(path, n)])]
    IN  IF n \in s.visited THEN s
        ELSE IF LessThan(newDist, s.distances[n]) THEN [pushed EXCEPT !.distances[n] = newDist]
        ELSE IF newDist = s.distances[n] THEN pushed
        ELSE s

\* lines 98-112
RECURSIVE RelaxKeyed(_, _, _, _, _, _)
RelaxKeyed(s, m, node, dist, path, ns) ==
    IF ns = <<>> THEN s
    ELSE RelaxKeyed(RelaxNeighborKeyed(s, m, node, dist, path, Head(ns)),
                    m, node, dist, path, Tail(ns))

\* lines 81-114: the while loop, from the search state s to the return
RECURSIVE dijkstraLoopKeyed(_, _, _, _)
dijkstraLoopKeyed(s, g, m, t) ==
    IF s.pq = <<>> THEN nullResult
    ELSE LET i == FrontIndexPerRoot(s.pq)
             e == s.pq[i]
             rest == [s EXCEPT !.pq = RemoveAt(@, i)]
             marked == [rest EXCEPT !.visited = @ \cup {e.node}]
         IN  IF e.node \in rest.visited THEN dijkstraLoopKeyed(rest, g, m, t)
             ELSE IF e.node = t THEN [dist |-> e.dist, path |-> e.path]
             ELSE dijkstraLoopKeyed(
                      RelaxKeyed(marked, m, e.node, e.dist, e.path, Neighbors(g, e.node)),
                      g, m, t)

\* lines 64-115: every distance at Infinity (the start's too), the start enqueued at 0
dijkstraKeyed(ss, g, m, start, t) ==
    dijkstraLoopKeyed([distances |-> [id \in SensorIds(ss) |-> Infinity],
                       visited |-> {},
                       pq |-> <<[dist |-> 0, node |-> start, path |-> <<start>>]>>],
                      g, m, t)

\* lines 123-134: the loop over the roots; best holds bestPath, bestRisk, bestRoot
RECURSIVE ForRootsKeyed(_, _, _, _, _, _)
ForRootsKeyed(rs, best, ss, g, m, t) ==
    IF rs = <<>> THEN best
    ELSE LET root == Head(rs)
             result == dijkstraKeyed(ss, g, m, root, t)
         IN  ForRootsKeyed(
                 Tail(rs),
                 IF /\ result # nullResult
                    /\ \/ LessThan(result.dist, best.risk)
                       \/ (result.dist = best.risk /\ root < best.root)
                 THEN [target |-> t, path |-> result.path, risk |-> result.dist, root |-> root]
                 ELSE best,
                 ss, g, m, t)

\* lines 118-137
findBestPathToTargetKeyed(rs, ss, g, m, t) ==
    ForRootsKeyed(rs, [nullOption EXCEPT !.risk = Infinity, !.root = nullRoot], ss, g, m, t)

\* lines 148-159: the loop over the remaining targets; best holds bestOption,
\* bestRisk, bestTarget
RECURSIVE ForTargetsKeyed(_, _, _, _, _, _)
ForTargetsKeyed(ts, best, rs, ss, g, m) ==
    IF ts = <<>> THEN best
    ELSE LET t == Head(ts)
             info == findBestPathToTargetKeyed(rs, ss, g, m, t)
         IN  ForTargetsKeyed(
                 Tail(ts),
                 IF /\ info.path # <<>>
                    /\ \/ LessThan(info.risk, best.risk)
                       \/ (info.risk = best.risk /\ t < best.target)
                 THEN [option |-> info, risk |-> info.risk, target |-> t]
                 ELSE best,
                 rs, ss, g, m)

\* lines 143-172: the while loop, from the risk map m, the remaining targets
\* and the paths recorded so far to the returned paths
RECURSIVE WhileKeyed(_, _, _, _, _, _)
WhileKeyed(rs, ss, g, m, remaining, recorded) ==
    IF remaining = <<>> THEN recorded
    ELSE LET best == ForTargetsKeyed(remaining,
                                     [option |-> nullOption, risk |-> Infinity,
                                      target |-> nullTarget],
                                     rs, ss, g, m)
         IN  IF best.option.path # <<>>
             THEN WhileKeyed(rs, ss, g, ZeroPath(m, best.option.path),
                             SetDelete(remaining, best.option.target),
                             Append(recorded, best.option.path))
             ELSE recorded

\* lines 32-175
solveHeistKeyed(ss, risksArg, ts) ==
    LET g == BuildGraph(ss)
    IN  IF ~g.ok THEN Thrown
        ELSE [state |-> "returned",
              paths |-> WhileKeyed(Roots(ss), ss, g.graph, BuildRiskMap(EmptyMap, risksArg),
                                   NewSet(<<>>, ts), <<>>)]

----------------------------------------------------------------------------
(* solveHeist, per-root variant with the linear-scan risk map:              *)
(* src/Algorithm.ts:212-359. The queue is an array of [dist, node, path]    *)
(* triples, sorted before every shift.                                      *)

\* lines 268-271: the sort's compare callback
compareTriples(a, b) ==
    IF a[1] # b[1] THEN a[1] - b[1]
    ELSE LocaleCompare(Join(a[3]), Join(b[3]))

\* Array.prototype.sort is stable: x goes behind the elements it does not precede
RECURSIVE InsertTriple(_, _)
InsertTriple(x, sorted) ==
    IF sorted = <<>> THEN <<x>>
    ELSE IF compareTriples(x, Head(sorted)) < 0 THEN <<x>> \o sorted
    ELSE <<Head(sorted)>> \o InsertTriple(x, Tail(sorted))

\* pq.sort(...)
RECURSIVE SortTriples(_)
SortTriples(pq) ==
    IF pq = <<>> THEN <<>>
    ELSE InsertTriple(pq[Len(pq)], SortTriples(SubSeq(pq, 1, Len(pq) - 1)))

\* lines 283-295: the body of the loop over the neighbors, for the neighbor n
RelaxNeighborLinear(s, l, node, dist, path, n) ==
    LET risk == getRiskLinear(l, node, n)
        newDist == dist + risk
        pushed == [s EXCEPT !.pq = Append(@, <<newDist, n, Append(path, n)>>)]
    IN  IF n \in s.visited THEN s
        ELSE IF LessThan(newDist, s.distances[n]) THEN [pushed EXCEPT !.distances[n] = newDist]
        ELSE IF newDist = s.distances[n] THEN pushed
        ELSE s

\* lines 282-295
RECURSIVE RelaxLinear(_, _, _, _, _, _)
RelaxLinear(s, l, node, dist, path, ns) ==
    IF ns = <<>> THEN s
    ELSE RelaxLinear(RelaxNeighborLinear(s, l, node, dist, path, Head(ns)),
                     l, node, dist, path, Tail(ns))

\* lines 267-298: the while loop, from the search state s to the return
RECURSIVE dijkstraLoopLinear(_, _, _, _)
dijkstraLoopLinear(s, g, l, t) ==
    IF s.pq = <<>> THEN nullResult
    ELSE LET sorted == SortTriples(s.pq)
             dist == Head(sorted)[1]
             node == Head(sorted)[2]
             path == Head(sorted)[3]
             rest == [s EXCEPT !.pq = Tail(sorted)]
             marked == [rest EXCEPT !.visited = @ \cup {node}]
         IN  IF node \in rest.visited THEN dijkstraLoopLinear(rest, g, l, t)
             ELSE IF node = t THEN [dist |-> dist, path |-> path]
             ELSE dijkstraLoopLinear(
                      RelaxLinear(marked, l, node, dist, path, Neighbors(g, node)),
                      g, l, t)

\* lines 259-299: every distance at Infinity, the start's at 0, the start in the queue
dijkstraLinear(ss, g, l, start, t) ==
    dijkstraLoopLinear([distances |-> MapSet([id \in SensorIds(ss) |-> Infinity], start, 0),
                        visited |-> {},
                        pq |-> <<<<0, start, <<start>>>>>>],
                       g, l, t)

\* lines 307-318: the loop over the roots; best holds bestPath, bestRisk, bestRoot
RECURSIVE ForRootsLinear(_, _, _, _, _, _)
ForRootsLinear(rs, best, ss, g, l, t) ==
    IF rs = <<>> THEN best
    ELSE LET root == Head(rs)
             result == dijkstraLinear(ss, g, l, root, t)
         IN  ForRootsLinear(
                 Tail(rs),
                 IF /\ result # nullResult
                    /\ \/ LessThan(result.dist, best.risk)
                       \/ (result.dist = best.risk /\ root < best.root)
                 THEN [target |-> t, path |-> result.path, risk |-> result.dist, root |-> root]
                 ELSE best,
                 ss, g, l, t)

\* lines 302-321
findBestPathToTargetLinear(rs, ss, g, l, t) ==
    ForRootsLinear(rs, [nullOption EXCEPT !.risk = Infinity, !.root = nullRoot], ss, g, l, t)

\* lines 332-343: the loop over the remaining targets
RECURSIVE ForTargetsLinear(_, _, _, _, _, _)
ForTargetsLinear(ts, best, rs, ss, g, l) ==
    IF ts = <<>> THEN best
    ELSE LET t == Head(ts)
             info == findBestPathToTargetLinear(rs, ss, g, l, t)
         IN  ForTargetsLinear(
                 Tail(ts),
                 IF /\ info.path # <<>>
                    /\ \/ LessThan(info.risk, best.risk)
                       \/ (info.risk = best.risk /\ t < best.target)
                 THEN [option |-> info, risk |-> info.risk, target |-> t]
                 ELSE best,
                 rs, ss, g, l)

\* lines 350-352: setRisk(path[i], path[i + 1], 0) along the path
RECURSIVE ZeroPathLinear(_, _)
ZeroPathLinear(l, path) ==
    IF Len(path) < 2 THEN l
    ELSE ZeroPathLinear(setRiskLinear(l, path[1], path[2], 0), Tail(path))

\* lines 327-356: the while loop
RECURSIVE WhileLinear(_, _, _, _, _, _)
WhileLinear(rs, ss, g, l, remaining, recorded) ==
    IF remaining = <<>> THEN recorded
    ELSE LET best == ForTargetsLinear(remaining,
                                      [option |-> nullOption, risk |-> Infinity,
                                       target |-> nullTarget],
                                      rs, ss, g, l)
         IN  IF best.option.path # <<>>
             THEN WhileLinear(rs, ss, g, ZeroPathLinear(l, best.option.path),
                              SetDelete(remaining, best.option.target),
                              Append(recorded, best.option.path))
             ELSE recorded

\* lines 212-359
solveHeistLinear(ss, risksArg, ts) ==
    [state |-> "returned",
     paths |-> WhileLinear(Roots(ss), ss, BuildGraphLinearScan(ss), BuildRiskList(risksArg),
                           NewSet(<<>>, ts), <<>>)]

----------------------------------------------------------------------------
(* SpecEquiv: the three solveHeist of the repository called on the same     *)
(* arguments. The multi-root one runs step by step (Next); the two per-root *)
(* ones are called once it has returned.                                    *)

\* target lists that name no id twice
TargetListsDistinct ==
    {q \in TargetLists : \A i \in 1..Len(q) : \A j \in 1..Len(q) : q[i] = q[j] => i = j}

\* a risks entry that names the edge 2 -> 1 once more, at the end of the list
SecondEntry == [fromSensor |-> 2, toSensor |-> 1, risk |-> 0]

InitEquiv ==
    /\ \E w \in [PotentialEdges -> -1..MaxRisk] :
       \E again \in {<<>>, <<SecondEntry>>} :
          /\ sensors = SensorsOf(w, <<>>)
          /\ risks = RisksOf(w) \o again
    /\ targetSensors \in TargetListsDistinct
    /\ pc = "build"
    /\ graph = EmptyMap
    /\ riskMap = EmptyMap
    /\ roots = <<>>
    /\ paths = <<>>
    /\ remainingTargets = <<>>
    /\ forRest = <<>>
    /\ target = nullTarget
    /\ search = NoSearch
    /\ pathInfo = null
    /\ minPath = null
    /\ minRisk = Infinity
    /\ bestTarget = nullTarget
    /\ resolved = <<>>
    /\ found = <<>>
    /\ riskList = <<>>
    /\ lastCall = NoCall
    /\ returned = NotReturned

\* src/Algorithm.ts:32-175 called on the arguments of the multi-root run
SolveHeistKeyed ==
    /\ pc \in {"done", "error"}
    /\ returned.keyed.state = "pending"
    /\ returned' = [returned EXCEPT !.keyed = solveHeistKeyed(sensors, risks, targetSensors)]
    /\ UNCHANGED <<sensors, risks, targetSensors, pc, graph, riskMap, roots, paths,
                   remainingTargets, forRest, target, search, pathInfo, minPath,
                   minRisk, bestTarget, resolved, found, riskList, lastCall>>

\* src/Algorithm.ts:212-359 called on the arguments of the multi-root run
SolveHeistLinear ==
    /\ pc \in {"done", "error"}
    /\ returned.linear.state = "pending"
    /\ returned' = [returned EXCEPT !.linear = solveHeistLinear(sensors, risks, targetSensors)]
    /\ UNCHANGED <<sensors, risks, targetSensors, pc, graph, riskMap, roots, paths,
                   remainingTargets, forRest, target, search, pathInfo, minPath,
                   minRisk, bestTarget, resolved, found, riskList, lastCall>>

NextEquiv == Next \/ SolveHeistKeyed \/ SolveHeistLinear

SpecEquiv == InitEquiv /\ [][NextEquiv]_vars

----------------------------------------------------------------------------
(* C1: a search returns null exactly when the target has no path from a    *)
(* root; otherwise it returns a root-to-target path whose total risk under *)
(* the current Risk Store values is the least over all root-to-target      *)
(* paths, and reports that risk.                                           *)
C1_SearchFindsMinimumRisk ==
    pc = "compare" =>
        IF PathsTo(target) = {}
        THEN pathInfo = null
        ELSE /\ pathInfo # null
             /\ pathInfo.target = target
             /\ pathInfo.path \in PathsTo(target)
             /\ PathRisk(riskMap, pathInfo.path) = MinPathRisk(riskMap, target)
             /\ pathInfo.risk = MinPathRisk(riskMap, target)

\* a search has returned, after a zeroing, a path of several edges that is
\* strictly cheaper than another path to the same target
C1_Witness ==
    /\ pc = "compare"
    /\ pathInfo # null
    /\ Len(pathInfo.path) >= 3
    /\ Len(paths) >= 1
    /\ \E p \in PathsTo(target) : PathRisk(riskMap, p) > pathInfo.risk

\* a search has returned null (in an acyclic input, for an id that is no sensor's)
C1_ReturnsNull ==
    /\ pc = "compare"
    /\ pathInfo = null
    /\ PathsTo(target) = {}

----------------------------------------------------------------------------
\* the root-to-t paths of least total risk
MinRiskPaths(m, t) == {p \in PathsTo(t) : PathRisk(m, p) = MinPathRisk(m, t)}

(* C2: among the root-to-target paths of least total risk, a search returns *)
(* the one whose id sequence is smallest when ids are compared as integers  *)
(* position by position, whatever the number of digits of the ids.          *)
C2_IntegerLexSmallest ==
    (pc = "compare" /\ pathInfo # null) =>
        \A p \in MinRiskPaths(riskMap, target) :
            p = pathInfo.path \/ IntLexLess(pathInfo.path, p)

\* what the search does return: the least path under localeCompare of the joined strings
C2_StringLexSmallest ==
    (pc = "compare" /\ pathInfo # null) =>
        /\ pathInfo.path \in MinRiskPaths(riskMap, target)
        /\ \A p \in MinRiskPaths(riskMap, target) :
              LocaleCompare(Join(pathInfo.path), Join(p)) <= 0

----------------------------------------------------------------------------
\* the pending targets that have a path
Reachable(ts) == {t \in Range(ts) : PathsTo(t) # {}}

\* the pending target of least risk, the smallest id among those of that risk
Cheapest(m, ts) ==
    CHOOSE t \in Reachable(ts) :
        \A u \in Reachable(ts) :
            \/ MinPathRisk(m, t) < MinPathRisk(m, u)
            \/ (MinPathRisk(m, t) = MinPathRisk(m, u) /\ t <= u)

(* C3: in every iteration of the selection loop that has a pending target  *)
(* with a path, the target resolved is the pending target of least risk    *)
(* under the current Risk Store values, the smallest id among those that   *)
(* tie, and its path is appended at the end of the output.                 *)
C3_CheapestTargetResolved ==
    [][(pc = "for" /\ forRest = <<>> /\ Reachable(remainingTargets) # {}) =>
          LET best == Cheapest(riskMap, remainingTargets)
          IN  /\ Len(paths') = Len(paths) + 1
              /\ SubSeq(paths', 1, Len(paths)) = paths
              /\ Last(paths') \in MinRiskPaths(riskMap, best)
              /\ Range(remainingTargets') = Range(remainingTargets) \ {best}]_vars

\* the searches of an iteration are over and two pending targets tie on the
\* least risk, the larger id first in the pending set
C3_Witness ==
    /\ pc = "for" /\ forRest = <<>>
    /\ Len(remainingTargets) >= 2
    /\ remainingTargets[1] > remainingTargets[2]
    /\ Range(remainingTargets) = Reachable(remainingTargets)
    /\ MinPathRisk(riskMap, remainingTargets[1]) = MinPathRisk(riskMap, remainingTargets[2])
    /\ MinPathRisk(riskMap, remainingTargets[1]) >= 1

----------------------------------------------------------------------------
\* the risk the searches of the iteration that recorded path k found for target t
FoundRisk(k, t) ==
    LET f == resolved[k].found
        i == CHOOSE j \in 1..Len(f) : f[j].target = t
    IN  f[i].info.risk

(* C4 as claimed: the risk recorded in each iteration is at least the risk  *)
(* recorded in the iteration before, equal risks in ascending target id.    *)
C4_RecordedRisksNondecreasing ==
    \A k \in 1..(Len(resolved) - 1) :
        \/ resolved[k].info.risk < resolved[k + 1].info.risk
        \/ /\ resolved[k].info.risk = resolved[k + 1].info.risk
           /\ resolved[k].info.target < resolved[k + 1].info.target

(* C4 as amended: the target resolved in an iteration had, in the searches *)
(* of the iteration before (before that iteration's path was zeroed), a     *)
(* risk at least the risk recorded in that iteration, equal risks in        *)
(* ascending target id; and the risk recorded for it is at most the risk it *)
(* had then.                                                                *)
C4_NondecreasingBeforeZeroing ==
    \A k \in 1..(Len(resolved) - 1) :
        LET t == resolved[k + 1].info.target
        IN  /\ \E j \in 1..Len(resolved[k].found) :
                   resolved[k].found[j].target = t /\ resolved[k].found[j].info # null
            /\ \/ resolved[k].info.risk < FoundRisk(k, t)
               \/ /\ resolved[k].info.risk = FoundRisk(k, t)
                  /\ resolved[k].info.target < t
            /\ resolved[k + 1].info.risk <= FoundRisk(k, t)

\* two paths are recorded and the second has a smaller risk than the first
C4_Witness ==
    /\ Len(resolved) = 2
    /\ resolved[2].info.risk < resolved[1].info.risk

----------------------------------------------------------------------------
(* C5: whenever the selection loop is running (at the start of every       *)
(* iteration and during its searches), the risk of every ordered pair of   *)
(* ids is 0 if the pair is a consecutive pair of a recorded path, and      *)
(* otherwise its initial value: the risk list's, or 0 if unlisted.         *)
C5_OnlyRecordedEdgesZeroed ==
    pc \in {"loop", "for", "dijkstra", "compare"} =>
        \A a, b \in AllIds :
            getRisk(riskMap, a, b) = IF OnRecordedPath(a, b) THEN 0 ELSE InitialRisk(a, b)

\* an iteration starts after a path was recorded that has an edge whose initial
\* risk was not 0, while an edge off that path keeps its risk
C5_Witness ==
    /\ pc = "loop"
    /\ Len(paths) >= 1
    /\ remainingTargets # <<>>
    /\ \E a, b \in NodeIds : OnRecordedPath(a, b) /\ InitialRisk(a, b) >= 1
    /\ \E a, b \in NodeIds : ~OnRecordedPath(a, b) /\ InitialRisk(a, b) >= 1

----------------------------------------------------------------------------
\* the number of output paths that end at t
PathsEndingAt(t) == Cardinality({k \in 1..Len(paths) : Last(paths[k]) = t})

(* C6: when solveHeist returns, every supplied target with a path from a   *)
(* root is the last node of exactly one output path, and every supplied    *)
(* target without one is the last node of none.                            *)
C6_EveryReachableTargetOnce ==
    pc = "done" =>
        \A t \in Range(targetSensors) :
            PathsEndingAt(t) = IF PathsTo(t) # {} THEN 1 ELSE 0

\* solveHeist has returned for a target list that names an id without a path
\* first and then a target with one
C6_Witness ==
    /\ pc = "done"
    /\ Len(targetSensors) >= 2
    /\ PathsTo(targetSensors[1]) = {}
    /\ PathsTo(targetSensors[2]) # {}
    /\ Len(paths) = 1

\* solveHeist has returned for a target list that names a target twice
C6_Duplicates ==
    /\ pc = "done"
    /\ Len(targetSensors) >= 2
    /\ targetSensors[1] = targetSensors[2]
    /\ Len(paths) = 1

----------------------------------------------------------------------------
(* C7: every output path starts at a root, ends at a supplied target, and  *)
(* each consecutive pair (a, b) of it is an edge: b declares a as a        *)
(* dependency.                                                              *)
C7_PathsAreRootToTarget ==
    \A k \in 1..Len(paths) :
        /\ paths[k] # <<>>
        /\ IsRoot(paths[k][1])
        /\ Last(paths[k]) \in Range(targetSensors)
        /\ \A i \in 1..(Len(paths[k]) - 1) : IsEdge(paths[k][i], paths[k][i + 1])

\* two paths are recorded, one of them of three nodes
C7_Witness ==
    /\ Len(paths) = 2
    /\ \E k \in 1..2 : Len(paths[k]) = 3

----------------------------------------------------------------------------
\* a dependency of some sensor is no sensor's id
HasUnknownDependency ==
    \E i \in 1..Len(sensors) : ~(Range(sensors[i].dependencies) \subseteq SensorIds(sensors))

(* C8: if a dependency list references an id that is no sensor's, the graph *)
(* construction fails: it does not complete.                                *)
C8_UnknownDependencyFails ==
    (HasUnknownDependency /\ pc # "build") => pc = "error"

\* in src/unnamed/part_000 it does fail, before any search and without a path list
C8_MultiRootFails ==
    /\ (HasUnknownDependency /\ pc # "build") => pc = "error"
    /\ pc = "error" => (HasUnknownDependency /\ paths = <<>> /\ search = NoSearch
                        /\ target = nullTarget)

----------------------------------------------------------------------------
\* the ordered pairs the risk list names
Listed == {<<risks[i].fromSensor, risks[i].toSensor>> : i \in 1..Len(risks)}

(* C9: in both Risk Stores, getRisk of a pair that neither the risk list    *)
(* nor a setRisk call has set is 0; getRisk(from, to) right after           *)
(* setRisk(from, to, v) is v; and a setRisk(from, to, v) leaves getRisk of  *)
(* every other ordered pair, (to, from) among them, as it was.              *)
C9_RiskStore ==
    /\ [](pc = "store" =>
            \A a, b \in StoreIds :
                <<a, b>> \notin (Listed \cup lastCall.written) =>
                    getRisk(riskMap, a, b) = 0 /\ getRiskLinear(riskList, a, b) = 0)
    /\ [](lastCall.op = "setRisk" =>
            /\ getRisk(riskMap, lastCall.from, lastCall.to) = lastCall.value
            /\ getRiskLinear(riskList, lastCall.from, lastCall.to) = lastCall.value)
    /\ [][lastCall'.calls = lastCall.calls + 1 =>
            \A a, b \in StoreIds :
                <<a, b>> # <<lastCall'.from, lastCall'.to>> =>
                    /\ getRisk(riskMap', a, b) = getRisk(riskMap, a, b)
                    /\ getRiskLinear(riskList', a, b) = getRiskLinear(riskList, a, b)]_vars

\* after two setRisk calls, the last one on a pair whose reverse pair has another
\* risk and whose digits are those of the reverse pair, a pair is still unset
C9_Witness ==
    /\ pc = "store"
    /\ lastCall.calls = 2
    /\ lastCall.from # lastCall.to
    /\ getRisk(riskMap, lastCall.to, lastCall.from) # lastCall.value
    /\ getRisk(riskMap, lastCall.to, lastCall.from) # 0
    /\ \E a, b \in StoreIds : <<a, b>> \notin (Listed \cup lastCall.written)

----------------------------------------------------------------------------
\* the number of distinct targets supplied
DistinctTargets == Cardinality(Range(targetSensors))

(* C10: the selection loop terminates. Every iteration either removes       *)
(* exactly one target from the pending set and appends exactly one path, or *)
(* ends the loop; the output never has more paths than there are distinct   *)
(* targets; every run ends. Each search terminates: a pass of its loop      *)
(* either discards a stale entry or finalizes a node not finalized before.  *)
C10_Terminates ==
    /\ [][(pc = "for" /\ forRest = <<>>) =>
            \/ /\ pc' = "loop"
               /\ Len(paths') = Len(paths) + 1
               /\ Len(remainingTargets') = Len(remainingTargets) - 1
               /\ Range(remainingTargets') \subseteq Range(remainingTargets)
            \/ /\ pc' = "done"
               /\ paths' = paths]_vars
    /\ [](pc \in {"loop", "for", "dijkstra", "compare", "done"} =>
            /\ Len(paths) + Len(remainingTargets) = DistinctTargets
            /\ Len(paths) <= DistinctTargets)
    /\ [][pc = "dijkstra" =>
            \/ /\ search'.visited = search.visited
               /\ Len(search'.pq) = Len(search.pq) - 1
               /\ pc' = "dijkstra"
            \/ /\ search.visited \subseteq search'.visited
               /\ Cardinality(search'.visited) = Cardinality(search.visited) + 1
               /\ search'.visited \subseteq SensorIds(sensors)
            \/ /\ search.pq = <<>>
               /\ pc' = "compare"]_vars
    /\ <>(pc \in {"done", "error"})

\* the loop has recorded a path, removed its target, and then ended with a
\* target still pending
C10_Witness ==
    /\ pc = "done"
    /\ Len(paths) = 1
    /\ Len(remainingTargets) = 1
    /\ Len(paths[1]) >= 2

----------------------------------------------------------------------------
(* C11 *)

\* all three solveHeist have returned
AllReturned ==
    pc = "done" /\ returned.keyed.state = "returned" /\ returned.linear.state = "returned"

\* an edge is named by two entries of risks
HasRepeatedRiskEntry ==
    \E i \in 1..Len(risks) : \E j \in 1..Len(risks) :
        /\ i # j
        /\ risks[i].fromSensor = risks[j].fromSensor
        /\ risks[i].toSensor = risks[j].toSensor

\* C11: on every input whose dependencies all name existing sensors, the
\* multi-root solveHeist, the per-root one with the keyed risk map and the
\* per-root one with the linear-scan risk map return the same list of paths.
C11_ThreeImplementationsAgree ==
    (AllReturned /\ ~HasUnknownDependency) =>
        (returned.keyed.paths = paths /\ returned.linear.paths = paths)

\* C11, the two per-root variants: they return the same list of paths
C11_KeyedAgreesWithLinear ==
    (AllReturned /\ ~HasUnknownDependency) => returned.keyed.paths = returned.linear.paths

\* C11, the two per-root variants on a risk list that names no edge twice
C11_KeyedAgreesWithLinearNoRepeat ==
    (AllReturned /\ ~HasUnknownDependency /\ ~HasRepeatedRiskEntry) =>
        returned.keyed.paths = returned.linear.paths

\* C11, the multi-root variant against the per-root one with the same risk map
C11_MultiRootAgreesWithKeyed ==
    (AllReturned /\ ~HasUnknownDependency) => returned.keyed.paths = paths

\* the root ids are written with the same number of digits
RootsOfOneWidth ==
    \A i \in 1..Len(roots) : \A j \in 1..Len(roots) :
        Len(DecimalString(roots[i])) = Len(DecimalString(roots[j]))

\* C11, where the variants do agree: on a risk list that names no edge twice
\* and roots whose ids have the same number of digits, the three return the
\* same list of paths
C11_AgreeOnOneWidthRootsNoRepeat ==
    (AllReturned /\ ~HasUnknownDependency /\ ~HasRepeatedRiskEntry /\ RootsOfOneWidth) =>
        (returned.keyed.paths = paths /\ returned.linear.paths = paths)

\* a run of the three on such an input that recorded a path
C11_AgreeWitness ==
    /\ AllReturned
    /\ ~HasRepeatedRiskEntry
    /\ RootsOfOneWidth
    /\ Len(paths) = 2
    /\ returned.linear.paths = paths

====
